---- MODULE Spec2Model ----
(***************************************************************************)
(* State-machine model of services/ml-pipeline: the model registry table   *)
(* (ml_models) with MLService.deploy_model, and the training-job table     *)
(* (training_jobs) with MLService.start_training_job, MLService.cancel_job *)
(* and the Celery task train_model, the prediction path                    *)
(* (MLService.predict_user_behavior with _get_model, _prepare_features and *)
(* _store_prediction) and PerformanceMonitor's two checks.                 *)
(*                                                                         *)
(* Every `await database.execute(...)` is one atomic statement at the      *)
(* database; the coroutines and the Celery tasks interleave between their  *)
(* statements.                                                             *)
(***************************************************************************)
EXTENDS Integers, Sequences, FiniteSets, TLC

VARIABLES
    ml_models,      \* table ml_models: (model_type, version) -> row
    models,         \* MLService.models: the keys of the loaded predictors
    deployCalls,    \* the deploy_model coroutines in flight
    now,            \* the wall clock read by datetime.utcnow()
    next_uuid,      \* the source of uuid.uuid4() values
    training_jobs,  \* table training_jobs: id -> row
    queue,          \* the Celery broker queue of task messages
    revoked,        \* the ids passed to celery_app.control.revoke
    tasks,          \* the train_model tasks executing in the worker pool
    cancelled_pending,  \* history: jobs whose cancel_job found them pending
    cancelled_running,  \* history: jobs whose cancel_job found them running with a
                        \* progress checkpoint still ahead
    data_ingestion_jobs,    \* table data_ingestion_jobs: id -> row
    returned_job_ids,   \* history: the job ids the start_* methods returned
    predictions,        \* table predictions: the stored rows
    predict_result,     \* history: what the last predict call returned or raised
    call_args,          \* a call of a function without side effects: its arguments
    call_result         \* what that call returned or raised

registryVars == <<ml_models, models, deployCalls, now>>
jobVars == <<next_uuid, training_jobs, queue, revoked, tasks,
             cancelled_pending, cancelled_running>>
ingestVars == <<data_ingestion_jobs, returned_job_ids>>
predictVars == <<predictions, predict_result>>
callVars == <<call_args, call_result>>
vars == <<ml_models, models, deployCalls, now, next_uuid, training_jobs,
          queue, revoked, tasks, cancelled_pending, cancelled_running,
          data_ingestion_jobs, returned_job_ids, predictions, predict_result,
          call_args, call_result>>

----------------------------------------------------------------------------
\* Bounds of the model.
MaxDeployCalls == 2     \* deploy_model coroutines in flight at once
MaxClock == 1           \* ticks of the wall clock
MaxJobs == 2            \* jobs submitted
MaxSoloJobs == 1        \* jobs submitted when one job is followed
PoolSize == 6           \* processes of the Celery worker pool
MaxPredictions == 2     \* predict calls
MaxMetrics == 2         \* entries of a current_metrics dict
MaxDriftFeatures == 2   \* entries of a feature_statistics dict
MaxFeatures == 2        \* entries of a features dict given to _prepare_features

\* settings.MAX_CONCURRENT_JOBS (its default)
MAX_CONCURRENT_JOBS == 5

ModelTypes == {"user_behavior", "project_success"}
Versions == {"v1", "v2"}
JobModelTypes == {"user_behavior"}      \* the model types jobs are submitted for
ModelKeys == ModelTypes \X Versions
Calls == 1..MaxDeployCalls

NULL == "NULL"          \* SQL NULL / Python None, in a text column
NO_VALUE == -1          \* SQL NULL / Python None, in a numeric or time column
UnknownJobId == 0       \* a job id no start_training_job returned

\* The progress values the task writes, in tenths: [0.2, 0.4, 0.6, 0.8, 1.0].
PROGRESS_TICKS == <<2, 4, 6, 8, 10>>

\* models.JobStatus
JobStatus == {"pending", "running", "completed", "failed", "cancelled"}
TerminalStatus == {"completed", "failed", "cancelled"}

----------------------------------------------------------------------------
\* Python dicts: the (key, value) pairs in insertion order, the keys distinct.

Dicts(keys, values, max_len) ==
    UNION {{d \in [1..n -> keys \X values] :
               \A i, j \in 1..n : i # j => d[i][1] # d[j][1]} : n \in 0..max_len}

\* list(d.keys())
Keys(d) == [i \in 1..Len(d) |-> d[i][1]]

\* d.get(key, default)
Get(d, key, default) ==
    IF \E i \in 1..Len(d) : d[i][1] = key
    THEN d[CHOOSE i \in 1..Len(d) : d[i][1] = key][2]
    ELSE default

----------------------------------------------------------------------------
\* Model registry

\* A deploy_model coroutine: its position, its arguments and, as history, what
\* the table held when it was called (was the version registered, which
\* versions of the type were deployed) and whether another deploy_model ran
\* during it.
IdleCall == [pc |-> "idle", model_type |-> NULL, version |-> NULL,
             registered_before |-> FALSE, deployed_before |-> {},
             overlapped |-> FALSE]

\* The versions of model_type whose row has status `deployed`.
DeployedVersions(rows, model_type) ==
    {v \in Versions : <<model_type, v>> \in DOMAIN rows
                      /\ rows[<<model_type, v>>].status = "deployed"}

\* (mutation) register writes the row whether or not the pair exists.
register_overwrites(model_type, version) ==
    /\ ml_models' =
          [k \in DOMAIN ml_models \cup {<<model_type, version>>} |->
              IF k = <<model_type, version>>
              THEN [status |-> "trained", deployment_date |-> NO_VALUE]
              ELSE ml_models[k]]
    /\ UNCHANGED <<models, deployCalls, now>>
    /\ UNCHANGED jobVars
    /\ UNCHANGED <<ingestVars, predictVars, callVars>>

\* ModelRegistry.register: insert a row with status `trained`; a duplicate
\* (model_type, version) is rejected.
register(model_type, version) ==
    /\ <<model_type, version>> \notin DOMAIN ml_models
    /\ ml_models' = ml_models @@
          (<<model_type, version>> :> [status |-> "trained", deployment_date |-> NO_VALUE])
    /\ UNCHANGED <<models, deployCalls, now>>
    /\ UNCHANGED jobVars
    /\ UNCHANGED <<ingestVars, predictVars, callVars>>

\* (mutation) the WHERE clause names the version and not the model type.
UpdateDeployed_any_type(rows, model_type, version, at) ==
    [k \in DOMAIN rows |->
        IF k[2] = version
        THEN [rows[k] EXCEPT !.status = "deployed", !.deployment_date = at]
        ELSE rows[k]]

\* The UPDATE of deploy_model:
\*   ml_models.update().where((model_type == :t) & (version == :v))
\*            .values(status="deployed", deployment_date=utcnow())
UpdateDeployed(rows, model_type, version, at) ==
    [k \in DOMAIN rows |->
        IF k = <<model_type, version>>
        THEN [rows[k] EXCEPT !.status = "deployed", !.deployment_date = at]
        ELSE rows[k]]

\* deploy_model is called: the coroutine starts.
deploy_model_call(c, model_type, version) ==
    /\ deployCalls[c].pc = "idle"
    /\ deployCalls' = [d \in Calls |->
          IF d = c
          THEN [pc |-> "update", model_type |-> model_type, version |-> version,
                registered_before |-> <<model_type, version>> \in DOMAIN ml_models,
                deployed_before |-> DeployedVersions(ml_models, model_type),
                overlapped |-> \E e \in Calls : deployCalls[e].pc # "idle"]
          ELSE IF deployCalls[d].pc # "idle"
               THEN [deployCalls[d] EXCEPT !.overlapped = TRUE]
               ELSE deployCalls[d]]
    /\ UNCHANGED <<ml_models, models, now>>
    /\ UNCHANGED jobVars
    /\ UNCHANGED <<ingestVars, predictVars, callVars>>

\* await database.execute(ml_models.update()...)
deploy_model_update(c) ==
    /\ deployCalls[c].pc = "update"
    /\ ml_models' = UpdateDeployed(ml_models, deployCalls[c].model_type,
                                   deployCalls[c].version, now)
    /\ deployCalls' = [deployCalls EXCEPT ![c].pc = "load"]
    /\ UNCHANGED <<models, now>>
    /\ UNCHANGED jobVars
    /\ UNCHANGED <<ingestVars, predictVars, callVars>>

\* _load_model: the predictor is loaded when its file exists (the file system
\* is outside the program, so both outcomes are possible).
LoadModel(loaded, model_type, version, path_exists) ==
    IF path_exists THEN loaded \cup {<<model_type, version>>} ELSE loaded

\* await self._load_model(model_type, version); return {...}
deploy_model_return(c) ==
    /\ deployCalls[c].pc = "load"
    /\ \E path_exists \in BOOLEAN :
          models' = LoadModel(models, deployCalls[c].model_type,
                              deployCalls[c].version, path_exists)
    /\ deployCalls' = [deployCalls EXCEPT ![c] = IdleCall]
    /\ UNCHANGED <<ml_models, now>>
    /\ UNCHANGED jobVars
    /\ UNCHANGED <<ingestVars, predictVars, callVars>>

\* Time passes.
Tick ==
    /\ now < MaxClock
    /\ now' = now + 1
    /\ UNCHANGED <<ml_models, models, deployCalls>>
    /\ UNCHANGED jobVars
    /\ UNCHANGED <<ingestVars, predictVars, callVars>>

----------------------------------------------------------------------------
\* Training jobs

JobIds == DOMAIN training_jobs

\* uuid.uuid4(): a value no earlier call returned.
uuid4(counter) == counter

\* The row start_training_job inserts. The column default of `progress`
\* (sa.Column("progress", sa.Float, default=0.0)) is applied or not depending
\* on the database layer, so the stored value is 0.0 or NULL.
PendingJob(model_type, progress) ==
    [model_type |-> model_type, status |-> "pending", progress |-> progress,
     started_at |-> NO_VALUE, completed_at |-> NO_VALUE,
     performance_metrics |-> NULL, error_message |-> NULL]

\* start_training_job: insert the job row, send the task, return the job id.
\* send_task is given no task_id, so Celery draws the task's id itself.
\* max_jobs bounds the number of jobs submitted.
start_training_job(model_type, max_jobs) ==
    /\ next_uuid < 2 * max_jobs
    /\ LET job_id == uuid4(next_uuid)
           task_id == uuid4(next_uuid + 1)
       IN  /\ \E progress \in {0, NO_VALUE} :
                 training_jobs' = training_jobs @@ (job_id :> PendingJob(model_type, progress))
           /\ queue' = Append(queue, [id |-> task_id, name |-> "train_model",
                                      job_id |-> job_id])
    /\ returned_job_ids' = returned_job_ids \cup {uuid4(next_uuid)}
    /\ next_uuid' = next_uuid + 2
    /\ UNCHANGED <<revoked, tasks, cancelled_pending, cancelled_running>>
    /\ UNCHANGED <<data_ingestion_jobs, predictVars, callVars>>
    /\ UNCHANGED registryVars

\* (mutation) the update has no WHERE clause: it writes every row.
UpdateJob_every_row(rows, job_id, values) ==
    [id \in DOMAIN rows |->
        [f \in DOMAIN rows[id] |->
            IF f \in DOMAIN values THEN values[f] ELSE rows[id][f]]]

\* training_jobs.update().where(id == :job_id).values(...)
UpdateJob(rows, job_id, values) ==
    [id \in DOMAIN rows |->
        IF id = job_id
        THEN [f \in DOMAIN rows[id] |->
                 IF f \in DOMAIN values THEN values[f] ELSE rows[id][f]]
        ELSE rows[id]]

\* (mutation) cancel_job also resets the stored progress.
CancelValues_resets_progress(at) ==
    [status |-> "cancelled", completed_at |-> at, progress |-> 0]

\* The values cancel_job writes.
CancelValues(at) == [status |-> "cancelled", completed_at |-> at]

\* celery_app.control.revoke(id, terminate=True): the id joins the workers'
\* revoked set and an executing task with that id is terminated.
Terminate(executing, id) ==
    [t \in DOMAIN executing \ {id} |-> executing[t]]

\* cancel_job: revoke the Celery task whose id is job_id, then mark the row
\* cancelled, whatever its status, and return
\* {"job_id": job_id, "status": "cancelled"}.
cancel_job(job_id) ==
    /\ revoked' = revoked \cup {job_id}
    /\ tasks' = Terminate(tasks, job_id)
    /\ training_jobs' = UpdateJob(training_jobs, job_id, CancelValues(now))
    /\ cancelled_pending' =
          IF job_id \in JobIds /\ training_jobs[job_id].status = "pending"
          THEN cancelled_pending \cup {job_id} ELSE cancelled_pending
    /\ cancelled_running' =
          IF /\ job_id \in JobIds
             /\ training_jobs[job_id].status = "running"
             /\ training_jobs[job_id].progress < PROGRESS_TICKS[Len(PROGRESS_TICKS)]
          THEN cancelled_running \cup {job_id} ELSE cancelled_running
    /\ call_args' = [op |-> "cancel_job", job_id |-> job_id]
    /\ call_result' = [done |-> TRUE, outcome |-> "returned",
                       value |-> [job_id |-> job_id, status |-> "cancelled"]]
    /\ UNCHANGED <<next_uuid, queue>>
    /\ UNCHANGED registryVars
    /\ UNCHANGED <<ingestVars, predictVars>>

\* The tasks registered with the Celery app: @celery_app.task(name='train_model').
RegisteredTasks == {"train_model"}

\* A worker process of the pool takes the oldest message of the queue; a
\* message whose id was revoked, or that names no registered task, is
\* discarded, any other starts its task.
task_receive ==
    /\ queue # <<>>
    /\ Cardinality(DOMAIN tasks) < PoolSize
    /\ LET msg == Head(queue)
       IN  tasks' = IF msg.id \in revoked \/ msg.name \notin RegisteredTasks
                    THEN tasks
                    ELSE tasks @@ (msg.id :> [job_id |-> msg.job_id, pc |-> "start", i |-> 1])
    /\ queue' = Tail(queue)
    /\ UNCHANGED <<next_uuid, training_jobs, revoked, cancelled_pending, cancelled_running>>
    /\ UNCHANGED registryVars
    /\ UNCHANGED <<ingestVars, predictVars, callVars>>

\* The values of the three updates of train_model's try block and of its
\* except block.
RunningValues(at) == [status |-> "running", started_at |-> at, progress |-> 0]
ProgressValues(progress) == [progress |-> progress]
CompletedValues(at) ==
    [status |-> "completed", completed_at |-> at, performance_metrics |-> "metrics"]
\* (mutation) the except block records the error and leaves the status.
FailedValues_keeps_status(at) ==
    [completed_at |-> at, error_message |-> "error"]

FailedValues(at) ==
    [status |-> "failed", completed_at |-> at, error_message |-> "error"]

\* train_model: update(status="running", started_at=utcnow(), progress=0.0)
train_model_start(t) ==
    /\ tasks[t].pc = "start"
    /\ training_jobs' = UpdateJob(training_jobs, tasks[t].job_id, RunningValues(now))
    /\ tasks' = [tasks EXCEPT ![t].pc = "progress"]
    /\ UNCHANGED <<next_uuid, queue, revoked, cancelled_pending, cancelled_running>>
    /\ UNCHANGED registryVars
    /\ UNCHANGED <<ingestVars, predictVars, callVars>>

\* train_model: one round of `for progress in [0.2, 0.4, 0.6, 0.8, 1.0]`:
\* sleep, then update(progress=progress).
train_model_progress(t) ==
    /\ tasks[t].pc = "progress"
    /\ training_jobs' = UpdateJob(training_jobs, tasks[t].job_id,
                                  ProgressValues(PROGRESS_TICKS[tasks[t].i]))
    /\ tasks' = IF tasks[t].i = Len(PROGRESS_TICKS)
                THEN [tasks EXCEPT ![t].pc = "complete"]
                ELSE [tasks EXCEPT ![t].i = @ + 1]
    /\ UNCHANGED <<next_uuid, queue, revoked, cancelled_pending, cancelled_running>>
    /\ UNCHANGED registryVars
    /\ UNCHANGED <<ingestVars, predictVars, callVars>>

\* (mutation) the task also deploys the records of the job's model type when
\* it completes.
train_model_complete_deploys(t) ==
    /\ tasks[t].pc = "complete"
    /\ training_jobs' = UpdateJob(training_jobs, tasks[t].job_id, CompletedValues(now))
    /\ tasks' = [u \in DOMAIN tasks \ {t} |-> tasks[u]]
    /\ ml_models' = [k \in DOMAIN ml_models |->
          IF k[1] = training_jobs[tasks[t].job_id].model_type
          THEN [ml_models[k] EXCEPT !.status = "deployed"]
          ELSE ml_models[k]]
    /\ UNCHANGED <<next_uuid, queue, revoked, cancelled_pending, cancelled_running>>
    /\ UNCHANGED <<models, deployCalls, now>>
    /\ UNCHANGED <<ingestVars, predictVars, callVars>>

\* train_model: update(status="completed", completed_at=utcnow(),
\* performance_metrics=...), then return.
train_model_complete(t) ==
    /\ tasks[t].pc = "complete"
    /\ training_jobs' = UpdateJob(training_jobs, tasks[t].job_id, CompletedValues(now))
    /\ tasks' = [u \in DOMAIN tasks \ {t} |-> tasks[u]]
    /\ UNCHANGED <<next_uuid, queue, revoked, cancelled_pending, cancelled_running>>
    /\ UNCHANGED registryVars
    /\ UNCHANGED <<ingestVars, predictVars, callVars>>

\* train_model: a statement of the try block raises (the statement has no
\* effect) and control passes to the except block.
train_model_raise(t) ==
    /\ tasks[t].pc \in {"start", "progress", "complete"}
    /\ tasks' = [tasks EXCEPT ![t].pc = "except"]
    /\ UNCHANGED <<next_uuid, training_jobs, queue, revoked,
                   cancelled_pending, cancelled_running>>
    /\ UNCHANGED registryVars
    /\ UNCHANGED <<ingestVars, predictVars, callVars>>

\* train_model, except block: update(status="failed", completed_at=utcnow(),
\* error_message=str(e)), then re-raise: the task ends.
train_model_except(t) ==
    /\ tasks[t].pc = "except"
    /\ training_jobs' = UpdateJob(training_jobs, tasks[t].job_id, FailedValues(now))
    /\ tasks' = [u \in DOMAIN tasks \ {t} |-> tasks[u]]
    /\ UNCHANGED <<next_uuid, queue, revoked, cancelled_pending, cancelled_running>>
    /\ UNCHANGED registryVars
    /\ UNCHANGED <<ingestVars, predictVars, callVars>>

\* start_data_ingestion: draw a job id, send the task 'ingest_data', return
\* the id. No row is inserted in any table.
start_data_ingestion(max_jobs) ==
    /\ next_uuid < 2 * max_jobs
    /\ LET job_id == uuid4(next_uuid)
           task_id == uuid4(next_uuid + 1)
       IN  /\ queue' = Append(queue, [id |-> task_id, name |-> "ingest_data",
                                      job_id |-> job_id])
           /\ returned_job_ids' = returned_job_ids \cup {job_id}
    /\ next_uuid' = next_uuid + 2
    /\ UNCHANGED <<training_jobs, revoked, tasks, cancelled_pending, cancelled_running>>
    /\ UNCHANGED <<data_ingestion_jobs, predictVars, callVars>>
    /\ UNCHANGED registryVars

\* get_job_status: the row of training_jobs with this id, else the row of
\* data_ingestion_jobs with this id, else MLServiceException.
get_job_status(jobs, ingestion_jobs, job_id) ==
    IF job_id \in DOMAIN jobs
    THEN [ok |-> TRUE, status |-> jobs[job_id].status]
    ELSE IF job_id \in DOMAIN ingestion_jobs
         THEN [ok |-> TRUE, status |-> ingestion_jobs[job_id].status]
         ELSE [ok |-> FALSE, status |-> "MLServiceException"]

----------------------------------------------------------------------------
\* Prediction

\* model_version or 'latest': the version name of a call that names none.
LATEST == "latest"

\* The model type of predict_user_behavior.
USER_BEHAVIOR == "user_behavior"

\* feature_names of _prepare_features.
feature_names ==
    [user_behavior |->
        <<"activity_score", "project_count", "collaboration_score", "ai_usage_frequency">>,
     project_success |->
        <<"complexity_score", "team_size", "duration_estimate", "technology_maturity">>,
     resource_usage |->
        <<"current_cpu", "current_memory", "current_storage", "user_count">>,
     anomaly_detection |->
        <<"cpu_usage", "memory_usage", "request_rate", "error_rate">>]

\* The features of the predict calls: none, one of the four, and one of the
\* four with an attribute that is no feature of the model type.
FeatureMaps ==
    {<<>>, <<<<"activity_score", 1>>>>, <<<<"plan", 1>>, <<"activity_score", 1>>>>}

\* _get_model: the predictor stored under (model_type, version or 'latest');
\* when there is none, the one under (model_type, 'latest'); when there is
\* none either, _create_default_model's new, unfitted estimator, which is
\* stored under (model_type, 'latest'). It never raises.
get_model(loaded, model_type, version) ==
    LET model_key == <<model_type, IF version = NULL THEN LATEST ELSE version>>
        latest_key == <<model_type, LATEST>>
    IN  IF model_key \in loaded
        THEN [key |-> model_key, models |-> loaded]
        ELSE [key |-> latest_key, models |-> loaded \cup {latest_key}]

\* A predictor that _load_model read from a file is a trained one; the one
\* under 'latest' is the unfitted default (no version is named 'latest').
IsFitted(model_key) == model_key[2] # LATEST

\* (mutation) the values are taken in the order of the dict.
prepare_features_by_position(features, model_type) ==
    LET keys == Keys(features)
        selected == IF model_type \in DOMAIN feature_names
                    THEN feature_names[model_type]
                    ELSE SubSeq(keys, 1, IF Len(keys) < 4 THEN Len(keys) ELSE 4)
    IN  [i \in 1..Len(selected) |-> IF i <= Len(features) THEN features[i][2] ELSE 0]

\* _prepare_features: float(features.get(name, 0.0)) for the names of the
\* model type; for a model type without an entry in feature_names, for the
\* first four keys of features. The values are numbers, which float() keeps.
prepare_features(features, model_type) ==
    LET keys == Keys(features)
        selected == IF model_type \in DOMAIN feature_names
                    THEN feature_names[model_type]
                    ELSE SubSeq(keys, 1, IF Len(keys) < 4 THEN Len(keys) ELSE 4)
    IN  [i \in 1..Len(selected) |-> Get(features, selected[i], 0)]

\* The arguments of the _prepare_features calls: two model types with an
\* entry in feature_names and one without, features among two names of
\* user_behavior, one of project_success and one of no model type.
UNKNOWN_MODEL_TYPE == "sentiment"
CodecModelTypes == ModelTypes \cup {UNKNOWN_MODEL_TYPE}
CodecKeys == {"activity_score", "project_count", "team_size", "plan"}
CodecValues == {1, 2}

\* The call returns its vector.
prepare_features_return ==
    /\ call_args.op = "_prepare_features"
    /\ ~call_result.done
    /\ call_result' =
          [done |-> TRUE, outcome |-> "returned",
           value |-> prepare_features(call_args.features, call_args.model_type)]
    /\ UNCHANGED call_args
    /\ UNCHANGED <<registryVars, jobVars, ingestVars, predictVars>>

\* The feature names with "score" and with "count" in them.
ScoreFeatures == {"activity_score", "collaboration_score", "complexity_score"}
CountFeatures == {"project_count", "user_count"}

\* _get_feature_importance: per supplied feature 0.3, 0.2 or 0.1 (in tenths)
\* by its name.
get_feature_importance(features) ==
    [i \in 1..Len(features) |->
        <<features[i][1],
          IF features[i][1] \in ScoreFeatures THEN 3
          ELSE IF features[i][1] \in CountFeatures THEN 2 ELSE 1>>]

\* _store_prediction: insert the row; a failure of the insert is logged and
\* swallowed.
store_prediction(rows, prediction_id, model_type, features, inserted) ==
    IF inserted
    THEN rows \cup {[id |-> prediction_id, model_type |-> model_type,
                     features |-> features]}
    ELSE rows

\* No predict call has returned yet.
NoResult ==
    [outcome |-> "none", error |-> NULL, prediction_id |-> NO_VALUE,
     model_version |-> NULL, model_key |-> <<NULL, NULL>>,
     requested |-> NULL, features |-> <<>>,
     feature_vector |-> prepare_features(<<>>, USER_BEHAVIOR),
     feature_importance |-> <<>>, stored |-> FALSE,
     deployed_before |-> {}, loaded_before |-> {}, settled |-> TRUE]

\* predict_user_behavior: get the model, prepare the features, score
\* (predict_proba raises on the unfitted default; on a trained predictor it
\* returns or raises), store the prediction, return the result with
\* metadata.model_version = model_version or 'latest'. Every exception
\* becomes MLServiceException.
predict_user_behavior(features, model_version) ==
    /\ next_uuid <= MaxPredictions
    /\ LET prediction_id == uuid4(next_uuid)
           got == get_model(models, USER_BEHAVIOR, model_version)
           call == [NoResult EXCEPT
                       !.requested = model_version,
                       !.features = features,
                       !.feature_vector = prepare_features(features, USER_BEHAVIOR),
                       !.model_key = got.key,
                       !.deployed_before = DeployedVersions(ml_models, USER_BEHAVIOR),
                       !.loaded_before = models,
                       !.settled = \A c \in Calls : deployCalls[c].pc = "idle"]
       IN  /\ models' = got.models
           /\ \E scored \in (IF IsFitted(got.key) THEN BOOLEAN ELSE {FALSE}),
                 inserted \in BOOLEAN :
                 IF scored
                 THEN /\ predictions' = store_prediction(predictions, prediction_id,
                                             USER_BEHAVIOR, features, inserted)
                      /\ predict_result' = [call EXCEPT
                             !.outcome = "returned",
                             !.prediction_id = prediction_id,
                             !.model_version =
                                 IF model_version = NULL THEN LATEST ELSE model_version,
                             !.feature_importance = get_feature_importance(features),
                             !.stored = inserted]
                 ELSE /\ predictions' = predictions
                      /\ predict_result' = [call EXCEPT
                             !.outcome = "raised",
                             !.error = "MLServiceException"]
    /\ next_uuid' = next_uuid + 1
    /\ UNCHANGED <<ml_models, deployCalls, now>>
    /\ UNCHANGED <<training_jobs, queue, revoked, tasks, cancelled_pending,
                   cancelled_running>>
    /\ UNCHANGED <<ingestVars, callVars>>

----------------------------------------------------------------------------
----------------------------------------------------------------------------
\* PerformanceMonitor

\* Metric values are in thousandths; n stands for the double nearest n/1000.

\* self.performance_thresholds
performance_thresholds ==
    [accuracy |-> 800, precision |-> 750, recall |-> 750, f1_score |-> 750]

\* The thresholds whose product threshold * 0.9, rounded to a double, is above
\* the double nearest the decimal product: 0.8 * 0.9 is 0.7200000000000001,
\* while 0.75 * 0.9 is the double 0.675.
ProductRoundsUp == {800}

\* value < threshold * 0.9, in doubles.
BelowNinetyPercent(value, threshold) ==
    \/ 10 * value < 9 * threshold
    \/ 10 * value = 9 * threshold /\ threshold \in ProductRoundsUp

\* The metrics of the calls and their values.
MetricNames == {"accuracy", "precision", "latency"}
MetricValues == {650, 675, 720, 750, 800}

\* The loop of check_model_performance over current_metrics.items(): one
\* alert for every metric that has a threshold and is below it.
RECURSIVE PerformanceAlerts(_)
PerformanceAlerts(items) ==
    IF items = <<>>
    THEN <<>>
    ELSE LET metric == Head(items)[1]
             value == Head(items)[2]
             rest == PerformanceAlerts(Tail(items))
         IN  IF /\ metric \in DOMAIN performance_thresholds
                /\ value < performance_thresholds[metric]
             THEN <<[type |-> "performance_degradation",
                     metric |-> metric,
                     current_value |-> value,
                     threshold |-> performance_thresholds[metric],
                     severity |->
                        IF BelowNinetyPercent(value, performance_thresholds[metric])
                        THEN "high" ELSE "medium"]>> \o rest
             ELSE rest

\* (mutation) the status is set anew for every metric of the loop, so the
\* report has the status of the last metric.
check_model_performance_last_metric(model_type, current_metrics) ==
    LET alerts == PerformanceAlerts(current_metrics)
        n == Len(current_metrics)
    IN  [status |-> IF n > 0 /\ PerformanceAlerts(<<current_metrics[n]>>) # <<>>
                    THEN "degraded" ELSE "healthy",
         alerts |-> alerts]

\* check_model_performance: status starts as "healthy" and is set to
\* "degraded" in the branch that appends an alert.
check_model_performance(model_type, current_metrics) ==
    LET alerts == PerformanceAlerts(current_metrics)
    IN  [status |-> IF alerts = <<>> THEN "healthy" ELSE "degraded",
         alerts |-> alerts]

\* The call returns.
check_model_performance_return ==
    /\ call_args.op = "check_model_performance"
    /\ ~call_result.done
    /\ call_result' =
          [done |-> TRUE,
           value |-> check_model_performance(call_args.model_type,
                                             call_args.current_metrics)]
    /\ UNCHANGED call_args
    /\ UNCHANGED <<registryVars, jobVars, ingestVars, predictVars>>

\* self.drift_thresholds, in thousandths
drift_thresholds == [feature_drift |-> 100, concept_drift |-> 150]

\* The feature statistics of the calls: per feature a dict with at most one
\* entry, the drift score or another statistic.
DriftFeatures == {"activity_score", "project_count", "team_size"}
DriftScores == {50, 100, 101, 150}
StatsDicts == Dicts({"drift_score", "mean"}, DriftScores, 1)

\* (mutation) a score at the threshold counts as drift.
Drifted_at_threshold(drift_score, threshold) == drift_score >= threshold

\* drift_score > self.drift_thresholds["feature_drift"]
Drifted(drift_score, threshold) == drift_score > threshold

\* The loop of detect_data_drift over feature_statistics.items(): the
\* drift_details entries of the features whose drift score
\* (stats.get("drift_score", 0.0)) is over the threshold.
RECURSIVE DriftDetails(_)
DriftDetails(items) ==
    IF items = <<>>
    THEN <<>>
    ELSE LET feature == Head(items)[1]
             drift_score == Get(Head(items)[2], "drift_score", 0)
             rest == DriftDetails(Tail(items))
         IN  IF Drifted(drift_score, drift_thresholds.feature_drift)
             THEN <<<<feature, [drift_score |-> drift_score,
                               threshold |-> drift_thresholds.feature_drift]>>>> \o rest
             ELSE rest

\* drift_detected is set in the same branch that adds a drift_details entry.
detect_data_drift(model_type, feature_statistics) ==
    LET drift_details == DriftDetails(feature_statistics)
    IN  [drift_detected |-> drift_details # <<>>,
         drift_details |-> drift_details]

\* The call returns.
detect_data_drift_return ==
    /\ call_args.op = "detect_data_drift"
    /\ ~call_result.done
    /\ call_result' =
          [done |-> TRUE,
           value |-> detect_data_drift(call_args.model_type,
                                       call_args.feature_statistics)]
    /\ UNCHANGED call_args
    /\ UNCHANGED <<registryVars, jobVars, ingestVars, predictVars>>

----------------------------------------------------------------------------
\* No function call is followed.
NoCall == [op |-> "none"]
NotReturned == [done |-> FALSE]

\* The service after MLService.__init__ on an empty database.
ServiceInit ==
    /\ ml_models = <<>>
    /\ models = {}
    /\ deployCalls = [c \in Calls |-> IdleCall]
    /\ now = 0
    /\ next_uuid = 1
    /\ training_jobs = <<>>
    /\ queue = <<>>
    /\ revoked = {}
    /\ tasks = <<>>
    /\ cancelled_pending = {}
    /\ cancelled_running = {}
    /\ data_ingestion_jobs = <<>>
    /\ returned_job_ids = {}
    /\ predictions = {}
    /\ predict_result = NoResult

Init ==
    /\ ServiceInit
    /\ call_args = NoCall
    /\ call_result = NotReturned

RegistryNext ==
    \/ \E t \in ModelTypes, v \in Versions : register(t, v)
    \/ \E c \in Calls, t \in ModelTypes, v \in Versions : deploy_model_call(c, t, v)
    \/ \E c \in Calls : deploy_model_update(c)
    \/ \E c \in Calls : deploy_model_return(c)

\* The registry alone, at one instant of the wall clock.
RegistrySpec == Init /\ [][RegistryNext]_vars

\* deploy_model calls for the same version name of the two model types.
CrossTypeNext ==
    \/ \E t \in ModelTypes : register(t, "v1")
    \/ \E c \in Calls, t \in ModelTypes : deploy_model_call(c, t, "v1")
    \/ \E c \in Calls : deploy_model_update(c)
    \/ \E c \in Calls : deploy_model_return(c)

CrossTypeSpec == Init /\ [][CrossTypeNext]_vars

\* The registry while time passes.
RegistryClockNext ==
    \/ RegistryNext
    \/ Tick

RegistryClockSpec == Init /\ [][RegistryClockNext]_vars

JobNext ==
    \/ \E t \in JobModelTypes : start_training_job(t, MaxJobs)
    \/ \E j \in JobIds \cup {UnknownJobId} : cancel_job(j)
    \/ task_receive
    \/ \E t \in DOMAIN tasks : train_model_start(t)
    \/ \E t \in DOMAIN tasks : train_model_progress(t)
    \/ \E t \in DOMAIN tasks : train_model_complete(t)
    \/ \E t \in DOMAIN tasks : train_model_raise(t)
    \/ \E t \in DOMAIN tasks : train_model_except(t)

\* The job table, the queue and the worker pool.
JobSpec == Init /\ [][JobNext]_vars

\* MAX_CONCURRENT_JOBS + 1 long-running jobs: each is submitted, received by
\* the pool and started, and none gets further.
AdmissionNext ==
    \/ \E t \in JobModelTypes : start_training_job(t, MAX_CONCURRENT_JOBS + 1)
    \/ task_receive
    \/ \E t \in DOMAIN tasks : train_model_start(t)

AdmissionSpec == Init /\ [][AdmissionNext]_vars

\* The jobs of both kinds: training and data ingestion.
SubmitNext ==
    \/ JobNext
    \/ start_data_ingestion(MaxJobs)

SubmitSpec == Init /\ [][SubmitNext]_vars

\* The ids uuid4 returns for the jobs and tasks of SubmitSpec.
Uuids == 1..(2 * MaxJobs)

\* The next statement of the task t: an update of the try block or the update
\* of the except block. Whether a statement raises is the body's choice, not
\* the scheduler's.
train_model_step(t) ==
    /\ t \in DOMAIN tasks
    /\ \/ train_model_start(t)
       \/ train_model_progress(t)
       \/ train_model_complete(t)
       \/ train_model_except(t)

\* The jobs of both kinds with workers that keep running: a message of the
\* queue is eventually received, and a task that has started eventually
\* executes its next statement, so the body of train_model ends by returning
\* or raising.
FairSubmitSpec ==
    /\ SubmitSpec
    /\ WF_vars(task_receive)
    /\ \A t \in Uuids : WF_vars(train_model_step(t))

\* One training job, under every interleaving of its worker and cancel_job.
SoloJobNext ==
    \/ \E t \in JobModelTypes : start_training_job(t, MaxSoloJobs)
    \/ \E j \in JobIds \cup {UnknownJobId} : cancel_job(j)
    \/ task_receive
    \/ \E t \in DOMAIN tasks : train_model_start(t)
    \/ \E t \in DOMAIN tasks : train_model_progress(t)
    \/ \E t \in DOMAIN tasks : train_model_complete(t)
    \/ \E t \in DOMAIN tasks : train_model_raise(t)
    \/ \E t \in DOMAIN tasks : train_model_except(t)

SoloJobSpec == Init /\ [][SoloJobNext]_vars

\* A training job runs in the worker while versions of its model type are
\* registered and deployed by one deploy_model call at a time.
TrainAndDeployNext ==
    \/ \E t \in JobModelTypes : start_training_job(t, MaxSoloJobs)
    \/ task_receive
    \/ \E t \in DOMAIN tasks : train_model_start(t)
    \/ \E t \in DOMAIN tasks : train_model_progress(t)
    \/ \E t \in DOMAIN tasks : train_model_complete(t)
    \/ \E t \in DOMAIN tasks : train_model_raise(t)
    \/ \E t \in DOMAIN tasks : train_model_except(t)
    \/ \E t \in JobModelTypes, v \in Versions : register(t, v)
    \/ \E t \in JobModelTypes, v \in Versions : deploy_model_call(1, t, v)
    \/ deploy_model_update(1)
    \/ deploy_model_return(1)

TrainAndDeploySpec == Init /\ [][TrainAndDeployNext]_vars

\* predict_user_behavior calls while versions of user_behavior are registered
\* and deployed by one deploy_model call at a time.
PredictNext ==
    \/ \E v \in Versions : register(USER_BEHAVIOR, v)
    \/ \E v \in Versions : deploy_model_call(1, USER_BEHAVIOR, v)
    \/ deploy_model_update(1)
    \/ deploy_model_return(1)
    \/ \E f \in FeatureMaps, v \in Versions \cup {NULL} : predict_user_behavior(f, v)

PredictSpec == Init /\ [][PredictNext]_vars

\* One call of check_model_performance, for every current_metrics dict.
PerformanceInit ==
    /\ ServiceInit
    /\ call_args \in {[op |-> "check_model_performance", model_type |-> USER_BEHAVIOR,
                       current_metrics |-> d] :
                          d \in Dicts(MetricNames, MetricValues, MaxMetrics)}
    /\ call_result = NotReturned

PerformanceSpec == PerformanceInit /\ [][check_model_performance_return]_vars

\* One call of _prepare_features, for every features dict and model type.
CodecInit ==
    /\ ServiceInit
    /\ call_args \in {[op |-> "_prepare_features", features |-> d, model_type |-> t] :
                          d \in Dicts(CodecKeys, CodecValues, MaxFeatures),
                          t \in CodecModelTypes}
    /\ call_result = NotReturned

CodecSpec == CodecInit /\ [][prepare_features_return]_vars

\* One call of detect_data_drift, for every feature_statistics dict.
DriftInit ==
    /\ ServiceInit
    /\ call_args \in {[op |-> "detect_data_drift", model_type |-> USER_BEHAVIOR,
                       feature_statistics |-> d] :
                          d \in Dicts(DriftFeatures, StatsDicts, MaxDriftFeatures)}
    /\ call_result = NotReturned

DriftSpec == DriftInit /\ [][detect_data_drift_return]_vars

----------------------------------------------------------------------------
\* Properties of the registry

\* C1: in every reachable state at most one ModelRecord per model type has
\* status `deployed`.
C1_AtMostOneDeployed ==
    \A t \in ModelTypes : Cardinality(DeployedVersions(ml_models, t)) <= 1

\* Two deploy_model calls for different versions of one model type are in
\* flight.
ConcurrentDeploys(t) ==
    \E c, d \in Calls :
        /\ c # d
        /\ deployCalls[c].pc # "idle" /\ deployCalls[d].pc # "idle"
        /\ deployCalls[c].model_type = t /\ deployCalls[d].model_type = t
        /\ deployCalls[c].version # deployCalls[d].version

\* C2: while two deploy calls for different versions of the same model type
\* interleave, no state, the states between the steps of one deploy ones
\* included, has two records of that type with status `deployed`.
C2_ConcurrentDeploysExclusive ==
    \A t \in ModelTypes :
        ConcurrentDeploys(t) => Cardinality(DeployedVersions(ml_models, t)) <= 1

\* C3: when deploy(model_type, v2) of a registered version returns, no other
\* deploy having run during it, and a version v1 # v2 of the type had status
\* `deployed` when it was called, v2 has status `deployed` and v1 has status
\* `retired`.
C3_DeployRetiresPrevious ==
    [][\A c \in Calls :
          LET t  == deployCalls[c].model_type
              v2 == deployCalls[c].version
          IN  (/\ deploy_model_return(c)
               /\ deployCalls[c].registered_before
               /\ ~deployCalls[c].overlapped)
              => \A v1 \in deployCalls[c].deployed_before \ {v2} :
                    /\ ml_models'[<<t, v2>>].status = "deployed"
                    /\ ml_models'[<<t, v1>>].status = "retired"]_vars

----------------------------------------------------------------------------
\* Properties of the jobs

\* The edges of the job state machine:
\* pending -> running -> {completed, failed, cancelled}, pending -> cancelled.
JobEdges ==
    {<<"pending", "running">>, <<"pending", "cancelled">>,
     <<"running", "completed">>, <<"running", "failed">>,
     <<"running", "cancelled">>}

\* C4: terminal job states are absorbing: no step changes the status of a
\* job that is completed, failed or cancelled.
C4_TerminalAbsorbing ==
    [][\A j \in JobIds :
          training_jobs[j].status \in TerminalStatus
          => training_jobs'[j].status = training_jobs[j].status]_vars

\* C5: every change of a job's status follows an edge of the job state
\* machine.
C5_StatusEdges ==
    [][\A j \in JobIds :
          training_jobs'[j].status # training_jobs[j].status
          => <<training_jobs[j].status, training_jobs'[j].status>> \in JobEdges]_vars

RunningJobs == {j \in JobIds : training_jobs[j].status = "running"}

\* C6: in every reachable state at most MAX_CONCURRENT_JOBS jobs have status
\* `running`.
C6_RunningAtMostMax == Cardinality(RunningJobs) <= MAX_CONCURRENT_JOBS

\* C7: admission is FIFO: no job is `running` while a job submitted before it
\* (the one with the smaller id) is still `pending`.
C7_FifoAdmission ==
    \A a, b \in JobIds :
        a < b => ~(training_jobs[a].status = "pending"
                   /\ training_jobs[b].status = "running")

\* C8: a job cancelled while `pending` has no started_at, then and in every
\* later state.
C8_CancelledPendingNeverStarted ==
    \A j \in cancelled_pending : training_jobs[j].started_at = NO_VALUE

\* C9: cancel_job on a job that is already completed, failed or cancelled
\* leaves the job's row unchanged.
C9_CancelTerminalNoOp ==
    [][\A j \in JobIds :
          (cancel_job(j) /\ training_jobs[j].status \in TerminalStatus)
          => training_jobs'[j] = training_jobs[j]]_vars

\* C10: a job cancelled while `running`, with a progress checkpoint still
\* ahead of its worker, never becomes `completed`.
C10_CancelledRunningNeverCompletes ==
    \A j \in cancelled_running : training_jobs[j].status # "completed"

\* C11: the stored progress of a job never decreases, under every
\* interleaving of the worker's updates and cancel_job calls.
C11_ProgressMonotone ==
    [][\A j \in JobIds :
          training_jobs'[j].progress >= training_jobs[j].progress]_vars

\* A job that was cancelled while its worker was updating it has reached the
\* last progress value.
C11_Witness ==
    \E j \in cancelled_running :
        /\ training_jobs[j].status = "cancelled"
        /\ training_jobs[j].progress = PROGRESS_TICKS[Len(PROGRESS_TICKS)]

\* C12: when a start_* method returns a job id, get_job_status finds a job
\* with that id and its status is `pending`.
C12_SubmitCreatesPendingJob ==
    [][\A id \in returned_job_ids' \ returned_job_ids :
          LET found == get_job_status(training_jobs', data_ingestion_jobs', id)
          IN  found.ok /\ found.status = "pending"]_vars

\* The jobs whose status is `running` and that no executing task works on.
OrphanRunning(jobs, executing) ==
    {j \in DOMAIN jobs :
        /\ jobs[j].status = "running"
        /\ ~\E t \in DOMAIN executing : executing[t].job_id = j}

\* C13: when the body of train_model has raised, the except block sets the
\* job's status to `failed` with error_message set, and no job is left
\* `running` without a task that works on it.
C13_RaiseBecomesFailed ==
    [][/\ \A t \in DOMAIN tasks :
             train_model_except(t)
             => /\ training_jobs'[tasks[t].job_id].status = "failed"
                /\ training_jobs'[tasks[t].job_id].error_message # NULL
       /\ OrphanRunning(training_jobs', tasks') = {}]_vars

\* A job that was running when its body raised is `failed`, with its error
\* message.
C13_Witness ==
    \E j \in JobIds :
        /\ training_jobs[j].status = "failed"
        /\ training_jobs[j].started_at # NO_VALUE
        /\ training_jobs[j].error_message # NULL

\* The jobs that a step takes to `completed`.
NewlyCompleted ==
    {j \in JobIds : /\ training_jobs'[j].status = "completed"
                    /\ training_jobs[j].status # "completed"}

\* C14: every training job that becomes `completed` adds exactly one
\* ModelRecord, and no other step of a job adds one.
C14_CompletedRegistersModel ==
    [][Cardinality(DOMAIN ml_models')
          = Cardinality(DOMAIN ml_models) + Cardinality(NewlyCompleted)]_vars

\* The ModelRecords whose status is `deployed`.
DeployedRecords(rows) == {k \in DOMAIN rows : rows[k].status = "deployed"}

\* C15: no step of a job (submission, reception by a worker, the worker's
\* updates, its completion or failure) changes the set of `deployed`
\* ModelRecords.
C15_JobStepNeverDeploys ==
    [][jobVars' # jobVars
          => DeployedRecords(ml_models') = DeployedRecords(ml_models)]_vars

\* A job has completed while one version of its model type is `deployed` and
\* another is registered and not deployed.
C15_Witness ==
    \E j \in JobIds :
        /\ training_jobs[j].status = "completed"
        /\ \E v, w \in Versions :
              /\ <<training_jobs[j].model_type, v>> \in DeployedRecords(ml_models)
              /\ <<training_jobs[j].model_type, w>> \in DOMAIN ml_models
              /\ ml_models[<<training_jobs[j].model_type, w>>].status = "trained"

\* C16: when the worker of one job fails (its body raises, its except block
\* runs), the rows of the other jobs, the other executing tasks and the queue
\* are unchanged, and afterwards the service still takes a submission, a
\* cancel_job of every job and a get_job_status of every job.
C16_FailureIsolated ==
    [][\A t \in DOMAIN tasks :
          (train_model_raise(t) \/ train_model_except(t))
          => /\ \A j \in JobIds \ {tasks[t].job_id} :
                   training_jobs'[j] = training_jobs[j]
             /\ \A u \in DOMAIN tasks \ {t} :
                   u \in DOMAIN tasks' /\ tasks'[u] = tasks[u]
             /\ queue' = queue
             /\ next_uuid' = next_uuid
             /\ \A j \in JobIds :
                   get_job_status(training_jobs', data_ingestion_jobs', j).ok
             /\ \A j \in JobIds : (ENABLED cancel_job(j))'
             /\ next_uuid < 2 * MaxJobs
                   => \A m \in JobModelTypes :
                         (ENABLED start_training_job(m, MaxJobs))']_vars

\* One job has failed while another job, untouched, is running with progress
\* made.
C16_Witness ==
    \E j, k \in JobIds :
        /\ j # k
        /\ training_jobs[j].status = "failed"
        /\ training_jobs[j].error_message # NULL
        /\ training_jobs[k].status = "running"
        /\ training_jobs[k].progress > 0
        /\ training_jobs[k].error_message = NULL

\* C17: a predict call that names no version, made when exactly one version
\* of the model type is `deployed` and loaded and no deploy_model is running,
\* returns a result scored with that version and reports it in its metadata.
C17_PredictUsesDeployedVersion ==
    \A v \in Versions :
        (/\ predict_result.outcome # "none"
         /\ predict_result.requested = NULL
         /\ predict_result.settled
         /\ predict_result.deployed_before = {v}
         /\ <<USER_BEHAVIOR, v>> \in predict_result.loaded_before)
        => /\ predict_result.outcome = "returned"
           /\ predict_result.model_key = <<USER_BEHAVIOR, v>>
           /\ predict_result.model_version = v

\* C18: a predict call that names no version, made when no version of the
\* model type is `deployed`, gets no predictor from _get_model and fails with
\* ModelNotFoundError.
C18_NoDeployedModelNotFound ==
    (/\ predict_result.outcome # "none"
     /\ predict_result.requested = NULL
     /\ predict_result.deployed_before = {})
    => /\ predict_result.outcome = "raised"
       /\ predict_result.error = "ModelNotFoundError"
       /\ predict_result.model_key = NoResult.model_key

\* C19: a predict call with an empty features map fails (the claim: with
\* ValidationError) and writes no PredictionRecord.
C19_EmptyFeaturesRejected ==
    [][(/\ predict_result' # predict_result
        /\ predict_result'.outcome # "none"
        /\ DOMAIN predict_result'.features = {})
       => /\ predict_result'.outcome = "raised"
          /\ predictions' = predictions]_vars

\* C20: deploy_model returns its result only for a (model_type, version) that
\* is registered; a call for a pair that was never registered fails (the
\* claim: with NotFoundError) and loads no predictor.
C20_DeployUnregisteredFails ==
    [][\A c \in Calls :
          deploy_model_return(c)
          => <<deployCalls[c].model_type, deployCalls[c].version>> \in DOMAIN ml_models]_vars

\* C21: a deploy_model call for a version that already has status `deployed`,
\* with no other deploy_model running during it, leaves every ModelRecord
\* (status and deployment_date) as it was.
C21_RedeployIsNoOp ==
    [][\A c \in Calls :
          (/\ deploy_model_update(c)
           /\ ~deployCalls[c].overlapped
           /\ deployCalls[c].version
                 \in DeployedVersions(ml_models, deployCalls[c].model_type))
          => ml_models' = ml_models]_vars

C23_ReturnedMeansPersisted ==
    [][(/\ predict_result' # predict_result
        /\ predict_result'.outcome # "none")
       => IF predict_result'.outcome = "returned"
          THEN LET id == predict_result'.prediction_id
               IN  Cardinality({r \in predictions' : r.id = id}) = 1
          ELSE predictions' = predictions]_vars

\* C24: when the scoring call of a loaded, trained predictor raises, predict
\* fails with PredictionError, not with an error that bad input or a missing
\* model would give as well.
C24_ScoringFailureIsPredictionError ==
    (/\ predict_result.outcome = "raised"
     /\ predict_result.model_key \in predict_result.loaded_before
     /\ IsFitted(predict_result.model_key))
    => predict_result.error = "PredictionError"

\* The alerts of a result that are about this metric.
AlertsOf(alerts, metric) == {i \in 1..Len(alerts) : alerts[i].metric = metric}

\* C25: for every supplied metric with a threshold t, check_model_performance
\* gives no alert when value >= t, exactly one alert, of severity `medium`,
\* when 0.9 * t <= value < t, and exactly one, of severity `high`, when
\* value < 0.9 * t.
C25_AlertSeverity ==
    (call_args.op = "check_model_performance" /\ call_result.done)
    => \A i \in 1..Len(call_args.current_metrics) :
          LET metric == call_args.current_metrics[i][1]
              value == call_args.current_metrics[i][2]
              alerts == call_result.value.alerts
              mine == AlertsOf(alerts, metric)
          IN  metric \in DOMAIN performance_thresholds
              => LET t == performance_thresholds[metric]
                 IN  IF value >= t
                     THEN mine = {}
                     ELSE /\ Cardinality(mine) = 1
                          /\ \A a \in mine :
                                alerts[a].severity =
                                   IF 10 * value >= 9 * t THEN "medium" ELSE "high"

\* The supplied features that have a drift score over the threshold.
OverThreshold(feature_statistics) ==
    {i \in 1..Len(feature_statistics) :
        \E k \in 1..Len(feature_statistics[i][2]) :
            /\ feature_statistics[i][2][k][1] = "drift_score"
            /\ feature_statistics[i][2][k][2] > drift_thresholds.feature_drift}

\* C26: detect_data_drift returns drift_detected = true exactly when at
\* least one supplied feature has a drift score strictly over the threshold;
\* a score equal to the threshold, or no score, does not mark drift.
C26_DriftIffOverThreshold ==
    (call_args.op = "detect_data_drift" /\ call_result.done)
    => (call_result.value.drift_detected
          <=> OverThreshold(call_args.feature_statistics) # {})

\* A call with one feature at the threshold and one without a drift score has
\* returned, with no drift detected.
C26_Witness ==
    /\ call_args.op = "detect_data_drift"
    /\ call_result.done
    /\ ~call_result.value.drift_detected
    /\ \E i, j \in 1..Len(call_args.feature_statistics) :
          /\ call_args.feature_statistics[i][2]
                = <<<<"drift_score", drift_thresholds.feature_drift>>>>
          /\ call_args.feature_statistics[j][2] = <<<<"mean", 150>>>>

\* The entries of a features dict whose key is a feature of the model type.
SchemaEntries(features, model_type) ==
    {features[k] : k \in {i \in 1..Len(features) :
        \E n \in 1..Len(feature_names[model_type]) :
            feature_names[model_type][n] = features[i][1]}}

\* C27: for a model type with an entry in feature_names, _prepare_features
\* returns a vector as long as the model type's name list whose element i is
\* the value given for name i, or 0.0 when the name is absent (no error), and
\* every features dict with the same values for those names, in any order and
\* with any other attributes, gives the same vector.
C27_VectorFollowsSchema ==
    (/\ call_args.op = "_prepare_features"
     /\ call_result.done
     /\ call_args.model_type \in DOMAIN feature_names)
    => LET names == feature_names[call_args.model_type]
           features == call_args.features
           vector == call_result.value
       IN  /\ call_result.outcome = "returned"
           /\ Len(vector) = Len(names)
           /\ \A i \in 1..Len(names) :
                 IF \E k \in 1..Len(features) : features[k][1] = names[i]
                 THEN \E k \in 1..Len(features) :
                         features[k][1] = names[i] /\ vector[i] = features[k][2]
                 ELSE vector[i] = 0
           /\ \A other \in Dicts(CodecKeys, CodecValues, MaxFeatures) :
                 SchemaEntries(other, call_args.model_type)
                    = SchemaEntries(features, call_args.model_type)
                 => prepare_features(other, call_args.model_type) = vector

\* The call for user_behavior with an attribute of no model type first and
\* project_count = 2 second has returned <<0, 2, 0, 0>>.
C27_Witness ==
    /\ call_args.op = "_prepare_features"
    /\ call_result.done
    /\ call_args.model_type = USER_BEHAVIOR
    /\ call_args.features = <<<<"plan", 1>>, <<"project_count", 2>>>>
    /\ call_result.value = <<0, 2, 0, 0>>

\* C28: for a model type without an entry in feature_names, _prepare_features
\* raises (the claim: UnknownModelTypeError) and returns no vector.
C28_UnknownModelTypeRaises ==
    (/\ call_args.op = "_prepare_features"
     /\ call_result.done
     /\ call_args.model_type \notin DOMAIN feature_names)
    => call_result.outcome = "raised"

\* The features of the model type that a features dict does not supply.
Defaulted(features, model_type) ==
    {feature_names[model_type][n] : n \in {i \in 1..Len(feature_names[model_type]) :
        ~\E k \in 1..Len(features) : features[k][1] = feature_names[model_type][i]}}

\* C29: the feature names a returned result carries in its metadata (the keys
\* of feature_importance, the only entry about features) are exactly the
\* features of the model type that were absent from the request and defaulted.
C29_ResultReportsDefaulted ==
    predict_result.outcome = "returned"
    => {predict_result.feature_importance[i][1] :
           i \in 1..Len(predict_result.feature_importance)}
          = Defaulted(predict_result.features, USER_BEHAVIOR)

\* The jobs with status `pending`.
PendingJobs == {j \in JobIds : training_jobs[j].status = "pending"}

\* C30: the number of `pending` jobs never exceeds the bound on jobs
\* (settings.MAX_CONCURRENT_JOBS, the only limit on jobs the configuration
\* has): a submission beyond it is rejected.
C30_PendingBounded ==
    Cardinality(PendingJobs) <= MAX_CONCURRENT_JOBS

\* C31: for a job id that no start_* method returned, get_job_status fails and
\* cancel_job fails too (the claim: with NotFoundError): it reports no status
\* for the id and leaves the job table as it was.
C31_UnknownJobNotFound ==
    [][\A j \in JobIds \cup {UnknownJobId} :
          (cancel_job(j) /\ j \notin returned_job_ids)
          => /\ ~get_job_status(training_jobs', data_ingestion_jobs', j).ok
             /\ training_jobs' = training_jobs
             /\ call_result'.outcome = "raised"]_vars

\* The rows, or the loaded predictors, of the other model types.
OtherTypes(keys, model_type) == {k \in keys : k[1] # model_type}

\* C32: a deploy_model call for one model type changes no ModelRecord and no
\* loaded predictor of another model type; the UPDATEs of two calls for
\* different model types give the same table in either order, and a call is
\* never held back by a call for another model type.
C32_DeployTouchesOwnTypeOnly ==
    [][/\ \A c \in Calls :
             (deploy_model_update(c) \/ deploy_model_return(c))
             => /\ \A k \in OtherTypes(DOMAIN ml_models, deployCalls[c].model_type) :
                      k \in DOMAIN ml_models' /\ ml_models'[k] = ml_models[k]
                /\ OtherTypes(models', deployCalls[c].model_type)
                      = OtherTypes(models, deployCalls[c].model_type)
       /\ \A c, d \in Calls :
             (/\ deployCalls[c].pc = "update"
              /\ deployCalls[d].pc = "update"
              /\ deployCalls[c].model_type # deployCalls[d].model_type)
             => /\ ENABLED deploy_model_update(c)
                /\ UpdateDeployed(UpdateDeployed(ml_models, deployCalls[c].model_type,
                                                 deployCalls[c].version, now),
                                  deployCalls[d].model_type, deployCalls[d].version, now)
                   = UpdateDeployed(UpdateDeployed(ml_models, deployCalls[d].model_type,
                                                   deployCalls[d].version, now),
                                    deployCalls[c].model_type, deployCalls[c].version, now)]_vars

\* One model type's version is `deployed` by a call that ran while a call for
\* the other model type was in flight, and the same version name of the other
\* model type is still `trained`.
C32_Witness ==
    \E c \in Calls, t, u \in ModelTypes :
        /\ t # u
        /\ <<t, "v1">> \in DOMAIN ml_models /\ ml_models[<<t, "v1">>].status = "deployed"
        /\ <<u, "v1">> \in DOMAIN ml_models /\ ml_models[<<u, "v1">>].status = "trained"
        /\ deployCalls[c].pc = "update"
        /\ deployCalls[c].model_type = u
        /\ deployCalls[c].overlapped

\* C33: in every reachable state the stored progress of every job is a number
\* of [0, 1] (0..10 in tenths), whatever the task has written so far.
C33_ProgressInUnitInterval ==
    \A j \in JobIds : training_jobs[j].progress \in 0..10

\* C34: with workers that keep running and a job body that ends, every job id
\* a start_* method has returned eventually names a job whose status is
\* terminal (completed, failed or cancelled).
C34_EveryJobTerminates ==
    \A j \in Uuids :
        (j \in returned_job_ids)
        ~> (LET found == get_job_status(training_jobs, data_ingestion_jobs, j)
            IN  found.ok /\ found.status \in TerminalStatus)

\* C35: a predict_user_behavior call, returning or raising, leaves the map of
\* loaded predictors (self.models) with the entries it had and changes the
\* status of no ModelRecord.
C35_PredictReadsRegistryOnly ==
    [][\A f \in FeatureMaps, v \in Versions \cup {NULL} :
          predict_user_behavior(f, v)
          => /\ models' = models
             /\ DOMAIN ml_models' = DOMAIN ml_models
             /\ \A k \in DOMAIN ml_models : ml_models'[k].status = ml_models[k].status]_vars

\* The supplied metrics that have a configured threshold and a value strictly
\* below it.
BelowThreshold(current_metrics) ==
    {i \in 1..Len(current_metrics) :
        /\ current_metrics[i][1] \in DOMAIN performance_thresholds
        /\ current_metrics[i][2] < performance_thresholds[current_metrics[i][1]]}

\* C36: the report of check_model_performance has status `degraded` exactly
\* when its alerts list is non-empty and `healthy` otherwise; it has as many
\* alerts as there are supplied metrics with a configured threshold and a
\* value strictly below it, and no alert is about a metric without threshold.
C36_ReportSelfConsistent ==
    (call_args.op = "check_model_performance" /\ call_result.done)
    => LET report == call_result.value
       IN  /\ report.status = (IF report.alerts # <<>> THEN "degraded" ELSE "healthy")
           /\ Len(report.alerts) = Cardinality(BelowThreshold(call_args.current_metrics))
           /\ \A a \in 1..Len(report.alerts) :
                 report.alerts[a].metric \in DOMAIN performance_thresholds

\* A report on two metrics, `accuracy` below its threshold followed by
\* `latency`, which has no threshold, with a value below every threshold: the
\* report is `degraded` with the one alert of `accuracy`.
C36_Witness ==
    /\ call_args.op = "check_model_performance"
    /\ call_result.done
    /\ call_args.current_metrics = <<<<"accuracy", 750>>, <<"latency", 650>>>>
    /\ call_result.value.status = "degraded"
    /\ Len(call_result.value.alerts) = 1
    /\ call_result.value.alerts[1].metric = "accuracy"

====
